---- MODULE Spec2Model ----
(***************************************************************************)
(* The /cluster matching handler of THARUN-BART/backend, in its two        *)
(* variants (clustering_service.py: fixed K; test.py: elbow-selected K),   *)
(* together with the save-fcm-token update of the user store, and the      *)
(* clustering-free heuristic mode as its specification describes it.       *)
(*                                                                         *)
(* Representation.  Strings that only serve as names (skills, interests,   *)
(* days, slots, uids) are small integers whose order is the strings'       *)
(* lexicographic order; an availability token "<day>_<slot>" is the pair   *)
(* <<day, slot>>.  A Big Five score is an integer number of tenths         *)
(* (0.5 is 5).  A Firestore document is a record; a key the document does  *)
(* not have is a field the record does not have.                           *)
(***************************************************************************)
EXTENDS Integers, Sequences, FiniteSets, TLC

VARIABLES store, variant, pc, loc

vars == <<store, variant, pc, loc>>

----------------------------------------------------------------------------
(* Bounds and program constants *)

\* largest explicit ?top= value a request carries
MaxTop == 2

\* request.args.get('top', 5)
DefaultTop == 5

\* float(u.get(k, 0.5)), in tenths
Big5Default == 5

\* k = min(3, len(users))  /  kneedle.elbow or 3
FallbackK == 3

\* max_k = min(len(users), 10)
MaxSearchK == 10

\* if len(users) < 2: return jsonify([])
MinUsers == 2

BIG5_KEYS == <<"big5_O", "big5_C", "big5_E", "big5_A", "big5_N">>

----------------------------------------------------------------------------
(* Generic helpers *)

Min(a, b) == IF a <= b THEN a ELSE b

Abs(a) == IF a < 0 THEN -a ELSE a

Range(s) == {s[i] : i \in DOMAIN s}

RECURSIVE Gcd(_, _)
Gcd(a, b) == IF b = 0 THEN a ELSE Gcd(b, a % b)

Lcm(a, b) == (a \div Gcd(a, b)) * b

RECURSIVE SumSeq(_)
SumSeq(s) == IF s = <<>> THEN 0 ELSE Head(s) + SumSeq(Tail(s))

RECURSIVE Concat(_)
Concat(ss) == IF ss = <<>> THEN <<>> ELSE Head(ss) \o Concat(Tail(ss))

\* d.get(key, default)
Get(d, key, default) == IF key \in DOMAIN d THEN d[key] ELSE default

\* order of two availability tokens (the order of the strings "<day>_<slot>")
TokenLess(a, b) == a[1] < b[1] \/ (a[1] = b[1] /\ a[2] < b[2])

\* sorted(S) for a set of names
RECURSIVE SortedNames(_)
SortedNames(S) ==
    IF S = {} THEN <<>>
    ELSE LET m == CHOOSE x \in S : \A y \in S : x <= y
         IN  <<m>> \o SortedNames(S \ {m})

\* sorted(S) for a set of availability tokens
RECURSIVE SortedTokens(_)
SortedTokens(S) ==
    IF S = {} THEN <<>>
    ELSE LET m == CHOOSE x \in S : \A y \in S \ {x} : TokenLess(x, y)
         IN  <<m>> \o SortedTokens(S \ {m})

----------------------------------------------------------------------------
(* Feature encoder *)

EmptyDict == [shape |-> "dict", days |-> <<>>, slots |-> <<>>]

\* the tokens one day of a dict-shaped availability contributes
DayTokens(e) ==
    IF e.kind = "list" THEN [i \in DOMAIN e.slots |-> <<e.day, e.slots[i]>>]
    ELSE IF e.kind = "str" THEN <<<<e.day, e.slots[1]>>>>
    ELSE <<>>

flatten_availability(user) ==
    LET availability == Get(user, "availability", EmptyDict)
    IN  IF availability.shape = "dict"
            THEN Concat([i \in DOMAIN availability.days |->
                            DayTokens(availability.days[i])])
        ELSE IF availability.shape = "list" THEN availability.slots
        ELSE <<>>

\* u.get('skills', []), u.get('interests', [])
SkillsOf(u) == Get(u, "skills", <<>>)

InterestsOf(u) == Get(u, "interests", <<>>)

\* all_skills, all_interests, all_avail: sorted, deduplicated universes
Vocabulary(users) ==
    [all_skills    |-> SortedNames(UNION {Range(SkillsOf(users[i])) :
                                        i \in DOMAIN users}),
     all_interests |-> SortedNames(UNION {Range(InterestsOf(users[i])) :
                                        i \in DOMAIN users}),
     all_avail     |-> SortedTokens(UNION {Range(flatten_availability(users[i])) :
                                        i \in DOMAIN users})]

\* [1 if x in own else 0 for x in universe]
OneHot(universe, own) ==
    [i \in DOMAIN universe |-> IF universe[i] \in Range(own) THEN 1 ELSE 0]

Big5Vec(u) == [i \in DOMAIN BIG5_KEYS |-> Get(u, BIG5_KEYS[i], Big5Default)]

\* faulty variant: the interest block placed before the skill block
FeatureRowInterestsFirst(u, voc) ==
    OneHot(voc.all_interests, InterestsOf(u))
        \o OneHot(voc.all_skills, SkillsOf(u))
        \o OneHot(voc.all_avail, flatten_availability(u))
        \o Big5Vec(u)

FeatureRow(u, voc) ==
    OneHot(voc.all_skills, SkillsOf(u))
        \o OneHot(voc.all_interests, InterestsOf(u))
        \o OneHot(voc.all_avail, flatten_availability(u))
        \o Big5Vec(u)

FeatureMatrix(users, voc) == [i \in DOMAIN users |-> FeatureRow(users[i], voc)]

----------------------------------------------------------------------------
(* Normalizer: StandardScaler().fit_transform(feature_matrix)              *)
(*                                                                         *)
(* With n rows, column sum S[j] and c[i][j] = n*x[i][j] - S[j], the        *)
(* population variance of column j is V[j] / n^3 for V[j] = sum_i          *)
(* c[i][j]^2, and the standardized entry is                                *)
(*     X_scaled[i][j] = c[i][j] * sqrt(n) / sqrt(V[j])                     *)
(* (0 for a column of zero variance, whose scale StandardScaler sets to 1).*)
(* The model keeps the integers c and V, which determine X_scaled exactly. *)

ColumnSum(M, j) == SumSeq([i \in DOMAIN M |-> M[i][j]])

Centered(M) ==
    LET n == Len(M)
    IN  [i \in DOMAIN M |-> [j \in DOMAIN M[i] |-> n * M[i][j] - ColumnSum(M, j)]]

Standardize(M) ==
    LET c == Centered(M)
    IN  [c |-> c,
         V |-> [j \in DOMAIN M[1] |-> SumSeq([i \in DOMAIN c |-> c[i][j] * c[i][j]])]]

RECURSIVE LcmSeq(_)
LcmSeq(s) ==
    IF s = <<>> THEN 1
    ELSE IF Head(s) = 0 THEN LcmSeq(Tail(s))
    ELSE Lcm(Head(s), LcmSeq(Tail(s)))

\* (LcmSeq(V) / n) times the dot product of rows u and v of X_scaled
Dot(X, u, v) ==
    LET L == LcmSeq(X.V)
    IN  SumSeq([j \in DOMAIN X.V |->
                   IF X.V[j] = 0 THEN 0
                   ELSE X.c[u][j] * X.c[v][j] * (L \div X.V[j])])

(* cosine_similarity(user_vec, cluster_vectors): a similarity is kept as   *)
(* its sign and its square num/den; rows of zero norm are left as they are *)
(* by sklearn's normalize, so their similarity to anything is 0.           *)
ZeroSim == [sgn |-> 0, num |-> 0, den |-> 1]

\* faulty variant: a zero vector counts as parallel to everything
CosineZeroAsParallel(X, u, v) ==
    LET duv == Dot(X, u, v)
        duu == Dot(X, u, u)
        dvv == Dot(X, v, v)
        g   == Gcd(Gcd(Abs(duv), duu), dvv)
        num == (duv \div g) * (duv \div g)
        den == (duu \div g) * (dvv \div g)
    IN  IF duu = 0 \/ dvv = 0 THEN [sgn |-> 1, num |-> 1, den |-> 1]
        ELSE IF duv = 0 THEN ZeroSim
        ELSE [sgn |-> IF duv > 0 THEN 1 ELSE -1,
              num |-> num \div Gcd(num, den),
              den |-> den \div Gcd(num, den)]

cosine_similarity(X, u, v) ==
    LET duv == Dot(X, u, v)
        duu == Dot(X, u, u)
        dvv == Dot(X, v, v)
        g   == Gcd(Gcd(Abs(duv), duu), dvv)
        num == (duv \div g) * (duv \div g)
        den == (duu \div g) * (dvv \div g)
    IN  IF duu = 0 \/ dvv = 0 \/ duv = 0 THEN ZeroSim
        ELSE [sgn |-> IF duv > 0 THEN 1 ELSE -1,
              num |-> num \div Gcd(num, den),
              den |-> den \div Gcd(num, den)]

\* a/b < c/d for a, c >= 0 and b, d > 0, by continued fractions
RECURSIVE FracLess(_, _, _, _)
FracLess(a, b, c, d) ==
    IF a \div b # c \div d THEN a \div b < c \div d
    ELSE IF c % d = 0 THEN FALSE
    ELSE IF a % b = 0 THEN TRUE
    ELSE FracLess(d, c % d, b, a % b)

\* s < t as real numbers
SimLess(s, t) ==
    IF s.sgn # t.sgn THEN s.sgn < t.sgn
    ELSE IF s.sgn = 0 THEN FALSE
    ELSE IF s.sgn = 1 THEN FracLess(s.num, s.den, t.num, t.den)
    ELSE FracLess(t.num, t.den, s.num, s.den)

\* quotient and remainder of (acc + times * r) / den + carry, for r, acc < den,
\* by additions that stay below den
RECURSIVE TimesMod(_, _, _, _, _)
TimesMod(r, den, times, acc, carry) ==
    IF times = 0 THEN [q |-> carry, r |-> acc]
    ELSE IF r >= den - acc THEN TimesMod(r, den, times - 1, acc - (den - r), carry + 1)
    ELSE TimesMod(r, den, times - 1, acc + r, carry)

\* floor(10^k * r / den) for 0 <= r < den, digit by digit, and whether
\* 10^k * r / den is an integer
RECURSIVE LongDiv(_, _, _, _)
LongDiv(r, den, k, acc) ==
    IF k = 0 THEN [f |-> acc, exact |-> r = 0]
    ELSE LET step == TimesMod(r, den, 10, 0, 0)
         IN  LongDiv(step.r, den, k - 1, acc * 10 + step.q)

\* floor(sqrt(x)) for lo*lo <= x < hi*hi
RECURSIVE ISqrt(_, _, _)
ISqrt(x, lo, hi) ==
    IF hi - lo <= 1 THEN lo
    ELSE LET mid == (lo + hi) \div 2
         IN  IF mid * mid <= x THEN ISqrt(x, mid, hi) ELSE ISqrt(x, lo, mid)

(* round(((float(sim) + 1) / 2) * 100, 2), as an integer number of         *)
(* hundredths: the integer nearest to 5000 + 5000 * sim (a tie goes to the *)
(* even one, as round() does).  With y = 5000*|sim|, 4*y^2 = 10^8*num/den. *)
Rescale(sim) ==
    IF sim.sgn = 0 THEN 5000
    ELSE LET whole == sim.num \div sim.den
             rest  == sim.num % sim.den
             frac  == LongDiv(rest, sim.den, 8, 0)
             f     == whole * 100000000 + frac.f
             exact == frac.exact
             root  == ISqrt(f, 0, 10001)
             m     == (root + 1) \div 2
             tie   == exact /\ root * root = f /\ root % 2 = 1
             up    == 5000 + sim.sgn * m
             down  == 5000 + sim.sgn * (m - 1)
         IN  IF tie /\ up % 2 # 0 THEN down ELSE up

\* similarity_pairs.sort(key=lambda x: x[0], reverse=True): stable, descending
\* faulty variant: an unstable insertion, the later of two equals goes first
RECURSIVE InsertDescUnstable(_, _)
InsertDescUnstable(sorted, p) ==
    IF sorted = <<>> THEN <<p>>
    ELSE IF ~SimLess(p.sim, Head(sorted).sim) THEN <<p>> \o sorted
    ELSE <<Head(sorted)>> \o InsertDescUnstable(Tail(sorted), p)

RECURSIVE InsertDesc(_, _)
InsertDesc(sorted, p) ==
    IF sorted = <<>> THEN <<p>>
    ELSE IF SimLess(Head(sorted).sim, p.sim) THEN <<p>> \o sorted
    ELSE <<Head(sorted)>> \o InsertDesc(Tail(sorted), p)

\* faulty variant: the pairs are left in snapshot order
SortSkipped(pairs) == pairs

RECURSIVE SortDesc(_)
SortDesc(pairs) ==
    IF pairs = <<>> THEN <<>>
    ELSE InsertDesc(SortDesc(SubSeq(pairs, 1, Len(pairs) - 1)), pairs[Len(pairs)])

\* similarity_pairs[:top_n] for top_n >= 0
Take(s, k) == SubSeq(s, 1, Min(k, Len(s)))

----------------------------------------------------------------------------
(* Cohort selector: KMeans(n_clusters=k, random_state=42).fit_predict      *)

\* len(users) < n_clusters makes KMeans raise ValueError
KMeansRaises(n, k) == n < k

(* The labels of a completed fit: one label in [0, k) per row.  Which      *)
(* labelling the seeded Lloyd iteration settles on is left open; two equal *)
(* rows are at equal distance from every centroid and get the same label.  *)
KMeansLabels(X, k) ==
    {f \in [DOMAIN X.c -> 0 .. (k - 1)] :
        \A i, j \in DOMAIN X.c : X.c[i] = X.c[j] => f[i] = f[j]}

\* k = min(3, len(users))
FixedK(n) == Min(FallbackK, n)

\* max_k = min(len(users), 10)
MaxK(n) == Min(n, MaxSearchK)

\* optimal_k = kneedle.elbow or 3   (no elbow: 0)
OptimalK(elbow) == IF elbow = 0 THEN FallbackK ELSE elbow

----------------------------------------------------------------------------
(* Ranker *)

\* user_ids.index(user_id)
IndexOf(user_ids, user_id) ==
    CHOOSE i \in DOMAIN user_ids :
        user_ids[i] = user_id /\ \A j \in 1 .. (i - 1) : user_ids[j] # user_id

\* the elements of s that satisfy Keep, in order
RECURSIVE FilterIdx(_, _, _)
FilterIdx(clusters, idx, i) ==
    IF i > Len(clusters) THEN <<>>
    ELSE (IF clusters[i] = clusters[idx] /\ i # idx THEN <<i>> ELSE <<>>)
             \o FilterIdx(clusters, idx, i + 1)

\* faulty variant: the query user stays among the cohort's members
ClusterIndicesWithSelf(clusters, idx) ==
    SortedNames({i \in DOMAIN clusters : clusters[i] = clusters[idx]})

\* [i for i, c in enumerate(clusters) if c == user_cluster and i != idx]
ClusterIndices(clusters, idx) == FilterIdx(clusters, idx, 1)

\* similarity_pairs, sorted, cut to top_n
TopPairs(X, clusters, idx, top_n) ==
    LET cluster_indices == ClusterIndices(clusters, idx)
        similarity_pairs ==
            [i \in DOMAIN cluster_indices |->
                [sim |-> cosine_similarity(X, idx, cluster_indices[i]),
                 idx |-> cluster_indices[i]]]
    IN  Take(SortDesc(similarity_pairs), top_n)

\* the response body: uid and rescaled similarity of each pair
ResultOf(users, top_pairs) ==
    [i \in DOMAIN top_pairs |->
        [uid |-> users[top_pairs[i].idx].uid,
         similarity |-> Rescale(top_pairs[i].sim)]]

----------------------------------------------------------------------------
(* The user store and the inputs *)

TokenSet == {"tokA"}

\* documents of the users collection, in document-id order
Population ==
    << [id |-> 1,
        data |-> [skills |-> <<1, 2>>, interests |-> <<1>>,
                  availability |->
                      [shape |-> "dict",
                       days |-> << [day |-> 1, kind |-> "list", slots |-> <<1, 2>>],
                                   [day |-> 2, kind |-> "str", slots |-> <<1>>],
                                   [day |-> 3, kind |-> "other", slots |-> <<>>] >>,
                       slots |-> <<>>],
                  big5_O |-> 10, big5_C |-> 5]],
       [id |-> 2,
        data |-> [skills |-> <<2, 2>>,
                  availability |->
                      [shape |-> "list", days |-> <<>>,
                       slots |-> << <<1, 2>>, <<3, 1>> >>]]],
       [id |-> 3,
        data |-> [uid |-> 7, skills |-> <<3>>, interests |-> <<2, 1>>,
                  availability |-> [shape |-> "other", days |-> <<>>, slots |-> <<>>],
                  big5_O |-> 0, big5_N |-> 10]],
       [id |-> 4,
        data |-> [interests |-> <<1>>,
                  big5_O |-> 5, big5_C |-> 5, big5_E |-> 5, big5_A |-> 5,
                  big5_N |-> 5]] >>

\* five users who differ in openness and conscientiousness only
TraitDoc(id, o, c) ==
    [id |-> id,
     data |-> [skills |-> <<1>>, interests |-> <<1>>, big5_O |-> o, big5_C |-> c]]

TraitPopulation ==
    << TraitDoc(1, 0, 0), TraitDoc(2, 3, 10), TraitDoc(3, 10, 9),
       TraitDoc(4, 2, 3), TraitDoc(5, 2, 3) >>

\* users for the two modes side by side
ModeDoc(id, skills, interests, slots, o) ==
    [id |-> id,
     data |-> [skills |-> skills, interests |-> interests,
               availability |-> [shape |-> "list", days |-> <<>>, slots |-> slots],
               big5_O |-> o]]

ModePopulation ==
    << ModeDoc(1, <<1>>, <<1, 2>>, << <<1, 1>> >>, 5),
       ModeDoc(2, <<2>>, <<1, 2>>, << <<1, 1>> >>, 5),
       ModeDoc(3, <<1, 2>>, <<1>>, <<>>, 10),
       ModeDoc(4, <<>>, <<>>, << <<1, 1>>, <<2, 1>> >>, 0) >>

\* the documents of pop at the indices S, in order
RECURSIVE Pick(_, _, _)
Pick(pop, S, i) ==
    IF i > Len(pop) THEN <<>>
    ELSE (IF i \in S THEN <<pop[i]>> ELSE <<>>) \o Pick(pop, S, i + 1)

Stores(pop) == {Pick(pop, S, 1) : S \in SUBSET DOMAIN pop}

StoreIds(s) == {s[i].id : i \in DOMAIN s}

\* ?userId= values: the id of a document, or 0, the id of none
QueryIds(s) == StoreIds(s) \cup {0}

\* ?top= values; absent, it is 5
TopValues == (0 .. MaxTop) \cup {DefaultTop}

----------------------------------------------------------------------------
(* The /cluster handler, one step per stage *)

Variants == {"fixed", "elbow"}

NoVoc == [all_skills |-> <<>>, all_interests |-> <<>>, all_avail |-> <<>>]

NoLoc ==
    [user_id |-> 0, top_n |-> 0, users |-> <<>>, user_ids |-> <<>>,
     voc |-> NoVoc, feature_matrix |-> <<>>, X_scaled |-> [c |-> <<>>, V |-> <<>>],
     elbow |-> 0, k |-> 0, clusters |-> <<>>, top_pairs |-> <<>>,
     status |-> 0, body |-> <<>>, mode |-> "cohort"]

\* data = doc.to_dict(); data['uid'] = doc.id
ToUser(doc) ==
    [key \in DOMAIN doc.data \cup {"uid"} |->
        IF key = "uid" THEN doc.id ELSE doc.data[key]]

\* len(users) < 2
\* faulty variant: only an empty snapshot takes the early return
TooFewEmptyOnly(users) == Len(users) < 1

TooFew(users) == Len(users) < MinUsers

\* faulty variant: the query id kept in one place shared by all requests
QueryIdShared(r) == loc[1].user_id

\* the query id of request r
QueryId(r) == loc[r].user_id

\* lines 55-65: read the arguments and the whole users collection
ReadSnapshot(r) ==
    /\ pc[r] = "idle"
    /\ \E user_id \in QueryIds(store), top_n \in TopValues :
          loc' = [loc EXCEPT ![r] =
                    [NoLoc EXCEPT !.user_id = user_id, !.top_n = top_n,
                                  !.users = [i \in DOMAIN store |-> ToUser(store[i])],
                                  !.user_ids = [i \in DOMAIN store |-> store[i].id]]]
    /\ pc' = [pc EXCEPT ![r] = "loaded"]
    /\ UNCHANGED <<store, variant>>

\* lines 66-67: fewer than two users
ReturnEmpty(r) ==
    /\ pc[r] = "loaded"
    /\ TooFew(loc[r].users)
    /\ loc' = [loc EXCEPT ![r].status = 200, ![r].body = <<>>]
    /\ pc' = [pc EXCEPT ![r] = "done"]
    /\ UNCHANGED <<store, variant>>

\* lines 68-85: vocabulary and feature matrix
Encode(r) ==
    /\ pc[r] = "loaded"
    /\ ~TooFew(loc[r].users)
    /\ LET voc == Vocabulary(loc[r].users)
       IN  loc' = [loc EXCEPT ![r].voc = voc,
                              ![r].feature_matrix = FeatureMatrix(loc[r].users, voc)]
    /\ pc' = [pc EXCEPT ![r] = "encoded"]
    /\ UNCHANGED <<store, variant>>

\* lines 86-87
Scale(r) ==
    /\ pc[r] = "encoded"
    /\ loc' = [loc EXCEPT ![r].X_scaled = Standardize(loc[r].feature_matrix)]
    /\ pc' = [pc EXCEPT ![r] = "scaled"]
    /\ UNCHANGED <<store, variant>>

\* clustering_service.py lines 88-90
FixedCluster(r) ==
    /\ variant = "fixed"
    /\ pc[r] = "scaled"
    /\ LET k == FixedK(Len(loc[r].users))
       IN  \E clusters \in KMeansLabels(loc[r].X_scaled, k) :
              loc' = [loc EXCEPT ![r].k = k, ![r].clusters = clusters]
    /\ pc' = [pc EXCEPT ![r] = "clustered"]
    /\ UNCHANGED <<store, variant>>

\* test.py lines 89-98: the elbow search; every k of the search is at most
\* len(users), so the fits of the search complete
FindElbow(r) ==
    /\ variant = "elbow"
    /\ pc[r] = "scaled"
    /\ \E elbow \in 0 .. MaxK(Len(loc[r].users)) :
          loc' = [loc EXCEPT ![r].elbow = elbow, ![r].k = OptimalK(elbow)]
    /\ pc' = [pc EXCEPT ![r] = "selected"]
    /\ UNCHANGED <<store, variant>>

\* test.py lines 101-102
FinalCluster(r) ==
    /\ pc[r] = "selected"
    /\ ~KMeansRaises(Len(loc[r].users), loc[r].k)
    /\ \E clusters \in KMeansLabels(loc[r].X_scaled, loc[r].k) :
          loc' = [loc EXCEPT ![r].clusters = clusters]
    /\ pc' = [pc EXCEPT ![r] = "clustered"]
    /\ UNCHANGED <<store, variant>>

\* test.py line 101-102 when KMeans raises: the request ends with a server error
ClusterError(r) ==
    /\ pc[r] = "selected"
    /\ KMeansRaises(Len(loc[r].users), loc[r].k)
    /\ loc' = [loc EXCEPT ![r].status = 500, ![r].body = <<>>]
    /\ pc' = [pc EXCEPT ![r] = "done"]
    /\ UNCHANGED <<store, variant>>

\* lines 91-92
NotFound(r) ==
    /\ pc[r] = "clustered"
    /\ QueryId(r) \notin Range(loc[r].user_ids)
    /\ loc' = [loc EXCEPT ![r].status = 404, ![r].body = <<>>]
    /\ pc' = [pc EXCEPT ![r] = "done"]
    /\ UNCHANGED <<store, variant>>

\* lines 93-111
Rank(r) ==
    /\ pc[r] = "clustered"
    /\ QueryId(r) \in Range(loc[r].user_ids)
    /\ LET idx == IndexOf(loc[r].user_ids, QueryId(r))
           top_pairs == TopPairs(loc[r].X_scaled, loc[r].clusters, idx, loc[r].top_n)
       IN  loc' = [loc EXCEPT ![r].top_pairs = top_pairs,
                              ![r].status = 200,
                              ![r].body = ResultOf(loc[r].users, top_pairs)]
    /\ pc' = [pc EXCEPT ![r] = "done"]
    /\ UNCHANGED <<store, variant>>

\* the response is sent and the worker takes the next request
Reply(r) ==
    /\ pc[r] = "done"
    /\ pc' = [pc EXCEPT ![r] = "idle"]
    /\ loc' = [loc EXCEPT ![r] = NoLoc]
    /\ UNCHANGED <<store, variant>>

----------------------------------------------------------------------------
(* Heuristic scorer: the clustering-free mode of the match operation       *)

\* Jaccard index as a fraction; 1 for two empty sets, 0 when one is empty
Jaccard(A, B) ==
    IF A = {} /\ B = {} THEN [num |-> 1, den |-> 1]
    ELSE [num |-> Cardinality(A \cap B), den |-> Cardinality(A \cup B)]

VecDot(a, b) == SumSeq([i \in DOMAIN a |-> a[i] * b[i]])

\* cosine similarity of the two personality vectors; 0 for a zero vector
PersonalitySim(u, v) ==
    LET a == Big5Vec(u)
        b == Big5Vec(v)
        d == VecDot(a, b)
    IN  IF VecDot(a, a) = 0 \/ VecDot(b, b) = 0 \/ d = 0 THEN ZeroSim
        ELSE [sgn |-> IF d > 0 THEN 1 ELSE -1,
              num |-> d * d, den |-> VecDot(a, a) * VecDot(b, b)]

\* faulty variant: skill overlap rewarded instead of skill difference
HeuristicScoreSkillOverlap(u, v) ==
    LET I == Jaccard(Range(InterestsOf(u)), Range(InterestsOf(v)))
        A == Jaccard(Range(flatten_availability(u)), Range(flatten_availability(v)))
        S == Jaccard(Range(SkillsOf(u)), Range(SkillsOf(v)))
        P == Rescale(PersonalitySim(u, v))
    IN  [num |-> 40000 * I.num * A.den * S.den
                   + 30000 * A.num * I.den * S.den
                   + 40000 * S.num * I.den * A.den
                   + 2 * P * I.den * A.den * S.den,
         den |-> 20000 * I.den * A.den * S.den]

(* 2.0*interest + 1.5*availability + 2.0*(1 - skills) + 1.0*personality as *)
(* a fraction; the personality term, (cos + 1) / 2, is taken to four       *)
(* decimal places.                                                         *)
HeuristicScore(u, v) ==
    LET I == Jaccard(Range(InterestsOf(u)), Range(InterestsOf(v)))
        A == Jaccard(Range(flatten_availability(u)), Range(flatten_availability(v)))
        S == Jaccard(Range(SkillsOf(u)), Range(SkillsOf(v)))
        P == Rescale(PersonalitySim(u, v))
    IN  [num |-> 40000 * I.num * A.den * S.den
                   + 30000 * A.num * I.den * S.den
                   + 40000 * (S.den - S.num) * I.den * A.den
                   + 2 * P * I.den * A.den * S.den,
         den |-> 20000 * I.den * A.den * S.den]

\* round(score, 1) as an integer number of tenths
RoundTenths(score) ==
    LET q == (10 * score.num) \div score.den
        rest == (10 * score.num) % score.den
    IN  IF 2 * rest > score.den \/ (2 * rest = score.den /\ q % 2 = 1)
            THEN q + 1 ELSE q

RECURSIVE InsertByScore(_, _)
InsertByScore(sorted, p) ==
    IF sorted = <<>> THEN <<p>>
    ELSE IF FracLess(Head(sorted).score.num, Head(sorted).score.den,
                     p.score.num, p.score.den)
        THEN <<p>> \o sorted
    ELSE <<Head(sorted)>> \o InsertByScore(Tail(sorted), p)

RECURSIVE SortByScore(_)
SortByScore(pairs) ==
    IF pairs = <<>> THEN <<>>
    ELSE InsertByScore(SortByScore(SubSeq(pairs, 1, Len(pairs) - 1)),
                       pairs[Len(pairs)])

\* every other user of the snapshot, scored, sorted, cut to top_n
HeuristicPairs(users, idx, top_n) ==
    LET others == SortedNames(DOMAIN users \ {idx})
        scored == [i \in DOMAIN others |->
                      [score |-> HeuristicScore(users[idx], users[others[i]]),
                       idx |-> others[i]]]
    IN  Take(SortByScore(scored), top_n)

\* match(query_id, top_n, mode = heuristic)
HeuristicMatch(r) ==
    /\ pc[r] = "idle"
    /\ \E user_id \in QueryIds(store), top_n \in TopValues :
          LET users == [i \in DOMAIN store |-> ToUser(store[i])]
              user_ids == [i \in DOMAIN store |-> store[i].id]
              found == user_id \in Range(user_ids)
              pairs == IF found
                           THEN HeuristicPairs(users, IndexOf(user_ids, user_id), top_n)
                           ELSE <<>>
          IN  loc' = [loc EXCEPT ![r] =
                  [NoLoc EXCEPT
                      !.mode = "heuristic", !.user_id = user_id, !.top_n = top_n,
                      !.users = users, !.user_ids = user_ids,
                      !.status = IF found THEN 200 ELSE 404,
                      !.body = [i \in DOMAIN pairs |->
                                   [uid |-> users[pairs[i].idx].uid,
                                    similarity |-> RoundTenths(pairs[i].score)]]]]
    /\ pc' = [pc EXCEPT ![r] = "done"]
    /\ UNCHANGED <<store, variant>>

----------------------------------------------------------------------------
(* /save-fcm-token *)

\* db.collection('users').document(user_id).update({'fcm_token': fcm_token})
UpdateToken(doc, fcm_token) ==
    [doc EXCEPT !.data =
        [key \in DOMAIN doc.data \cup {"fcm_token"} |->
            IF key = "fcm_token" THEN fcm_token ELSE doc.data[key]]]

\* user_id values of the requests: the id of the first document, 9 (the id
\* of no document) and 0 (a missing or empty field)
SaveIds(s) == (IF s = <<>> THEN {} ELSE {s[1].id}) \cup {0, 9}

\* fcm_token "" stands for a missing or empty field
save_fcm_token ==
    \E user_id \in SaveIds(store), fcm_token \in TokenSet \cup {""} :
        /\ store' =
              IF user_id = 0 \/ fcm_token = ""
                  THEN store                      \* 400: missing field
              ELSE IF user_id \notin StoreIds(store)
                  THEN store                      \* update() raises NotFound
              ELSE [i \in DOMAIN store |->
                       IF store[i].id = user_id
                           THEN UpdateToken(store[i], fcm_token)
                           ELSE store[i]]
        /\ UNCHANGED <<variant, pc, loc>>

----------------------------------------------------------------------------
(* Specifications *)

Workers == DOMAIN pc

Next ==
    \/ \E r \in Workers : ReadSnapshot(r)
    \/ \E r \in Workers : ReturnEmpty(r)
    \/ \E r \in Workers : Encode(r)
    \/ \E r \in Workers : Scale(r)
    \/ \E r \in Workers : FixedCluster(r)
    \/ \E r \in Workers : FindElbow(r)
    \/ \E r \in Workers : FinalCluster(r)
    \/ \E r \in Workers : ClusterError(r)
    \/ \E r \in Workers : NotFound(r)
    \/ \E r \in Workers : Rank(r)
    \/ \E r \in Workers : Reply(r)

InitWith(stores, workers) ==
    /\ store \in stores
    /\ variant \in Variants
    /\ pc = [r \in workers |-> "idle"]
    /\ loc = [r \in workers |-> NoLoc]

\* one worker, any snapshot of the population
Init == InitWith(Stores(Population), {1})

Spec == Init /\ [][Next]_vars

\* one worker, users that differ in personality only
InitTraits == InitWith(Stores(TraitPopulation), {1})

SpecTraits == InitTraits /\ [][Next]_vars

\* one worker that serves requests of either mode
InitModes == InitWith(Stores(ModePopulation), {1})

NextModes == Next \/ \E r \in Workers : HeuristicMatch(r)

SpecModes == InitModes /\ [][NextModes]_vars

\* two workers and token updates, over the first users of the population
InitConc == InitWith({SubSeq(Population, 1, n) : n \in 0 .. MinUsers}, {1, 2})

NextConc == Next \/ save_fcm_token

SpecConc == InitConc /\ [][NextConc]_vars

----------------------------------------------------------------------------
(* Properties *)

Done(r) == pc[r] = "done"

Present(r) == loc[r].user_id \in Range(loc[r].user_ids)

\* the request went through the ranking step
Ranked(r) == Done(r) /\ loc[r].clusters # <<>> /\ Present(r)

QueryIdx(r) == IndexOf(loc[r].user_ids, loc[r].user_id)

\* the candidate set: the query user's cohort minus the query user
Candidates(r) ==
    {i \in DOMAIN loc[r].clusters :
        i # QueryIdx(r) /\ loc[r].clusters[i] = loc[r].clusters[QueryIdx(r)]}

\* the snapshot indices of the users named in the response
ReturnedIdx(r) ==
    {i \in DOMAIN loc[r].users :
        \E e \in DOMAIN loc[r].body : loc[r].body[e].uid = loc[r].users[i].uid}

SimOf(r, i) == cosine_similarity(loc[r].X_scaled, QueryIdx(r), i)

(* C1: for every snapshot, of any size, a request whose query id is not    *)
(* the id of a record of the snapshot ends with 404 'User not found'.      *)
C1_AbsentIdIsNotFound ==
    \A r \in Workers : (Done(r) /\ ~Present(r)) => loc[r].status = 404

(* C2: with at least 2 users and the query id present, every returned uid  *)
(* differs from the query id and belongs to a user with the query user's   *)
(* cohort label; when no other user shares the label the result is the     *)
(* empty list with status 200.                                             *)
C2_ResultWithinCohort ==
    \A r \in Workers :
        (Done(r) /\ Len(loc[r].users) >= 2 /\ Present(r)) =>
            /\ \A e \in DOMAIN loc[r].body :
                  /\ loc[r].body[e].uid # loc[r].user_id
                  /\ \E i \in Candidates(r) :
                        loc[r].users[i].uid = loc[r].body[e].uid
            /\ (loc[r].clusters # <<>> /\ Candidates(r) = {}) =>
                  (loc[r].status = 200 /\ loc[r].body = <<>>)

C2_Witness ==
    \E r \in Workers :
        /\ Ranked(r)
        /\ loc[r].body # <<>>
        /\ Candidates(r) # DOMAIN loc[r].users \ {QueryIdx(r)}

(* C3: the result has exactly min(top_n, |C|) entries, names no uid twice, *)
(* and no candidate left out has a strictly greater similarity than a      *)
(* candidate that was returned.                                            *)
C3_TopN ==
    \A r \in Workers :
        Ranked(r) =>
            /\ Len(loc[r].body) = Min(loc[r].top_n, Cardinality(Candidates(r)))
            /\ \A e, f \in DOMAIN loc[r].body :
                  loc[r].body[e].uid = loc[r].body[f].uid => e = f
            /\ ReturnedIdx(r) \subseteq Candidates(r)
            /\ \A out \in Candidates(r) \ ReturnedIdx(r), in \in ReturnedIdx(r) :
                  ~SimLess(SimOf(r, in), SimOf(r, out))

C3_Witness ==
    \E r \in Workers :
        /\ Ranked(r)
        /\ loc[r].body # <<>>
        /\ Cardinality(Candidates(r)) > loc[r].top_n
        /\ \E out \in Candidates(r) \ ReturnedIdx(r), in \in ReturnedIdx(r) :
              SimLess(SimOf(r, out), SimOf(r, in))

\* the response is in non-increasing order of the emitted score
ScoreDescending(r) ==
    \A e, f \in DOMAIN loc[r].body :
        e < f => loc[r].body[e].similarity >= loc[r].body[f].similarity

(* C4 as stated: the list is in non-increasing order of the rescaled score *)
(* and two returned candidates with equal rescaled scores appear in        *)
(* snapshot order.                                                         *)
C4_TiesOnScoreInSnapshotOrder ==
    \A r \in Workers :
        Ranked(r) =>
            /\ ScoreDescending(r)
            /\ \A e, f \in DOMAIN loc[r].body :
                  (e < f /\ loc[r].body[e].similarity = loc[r].body[f].similarity)
                      => loc[r].top_pairs[e].idx < loc[r].top_pairs[f].idx

(* C4 amended: the list is in non-increasing order of the rescaled score,  *)
(* and two returned candidates whose cosine similarities (before rescaling *)
(* and rounding) are equal appear in snapshot order.                       *)
C4_TiesOnSimilarityInSnapshotOrder ==
    \A r \in Workers :
        Ranked(r) =>
            /\ ScoreDescending(r)
            /\ \A e, f \in DOMAIN loc[r].body :
                  (e < f /\ loc[r].top_pairs[e].sim = loc[r].top_pairs[f].sim)
                      => loc[r].top_pairs[e].idx < loc[r].top_pairs[f].idx

C4_Witness ==
    \E r \in Workers :
        /\ Ranked(r)
        /\ \E e, f \in DOMAIN loc[r].body :
              /\ e < f
              /\ loc[r].top_pairs[e].sim = loc[r].top_pairs[f].sim
        /\ \E e, f \in DOMAIN loc[r].body :
              /\ e < f
              /\ loc[r].body[e].similarity > loc[r].body[f].similarity

(* C5: when the snapshot has fewer than 2 users the request returns the    *)
(* empty list and never enters the encoding, normalization or clustering   *)
(* steps.                                                                  *)
C5_SmallSnapshotSkipsPipeline ==
    \A r \in Workers :
        Len(loc[r].users) < 2 =>
            /\ pc[r] \in {"idle", "loaded", "done"}
            /\ loc[r].feature_matrix = <<>> /\ loc[r].clusters = <<>>
            /\ Done(r) => (loc[r].status = 200 /\ loc[r].body = <<>>)

C5_Witness ==
    \E r \in Workers : Done(r) /\ Len(loc[r].users) = 1 /\ loc[r].body = <<>>

\* identical skills, interests, availability and personality scores
SameProfile(u, v) ==
    /\ Range(Get(u, "skills", <<>>)) = Range(Get(v, "skills", <<>>))
    /\ Range(Get(u, "interests", <<>>)) = Range(Get(v, "interests", <<>>))
    /\ Range(flatten_availability(u)) = Range(flatten_availability(v))
    /\ Big5Vec(u) = Big5Vec(v)

\* the scores reported to the query user for users with the query user's profile
TwinScores(r) ==
    {loc[r].body[e].similarity : e \in
        {e \in DOMAIN loc[r].body :
            SameProfile(loc[r].users[QueryIdx(r)], loc[r].users[loc[r].top_pairs[e].idx])}}

\* row i of X_scaled is the zero vector
ZeroRow(X, i) == \A j \in DOMAIN X.V : X.V[j] = 0 \/ X.c[i][j] = 0

(* C6 as stated: the score reported for a user with the query user's       *)
(* profile is exactly 100.00, also when every column has zero variance.    *)
C6_TwinScoresHundred ==
    \A r \in Workers : Ranked(r) => TwinScores(r) \subseteq {10000}

(* C6 amended: the score reported for a user with the query user's profile *)
(* is exactly 100.00 when the query user's standardized row is not the     *)
(* zero vector, and exactly 50.00 when it is (as in a snapshot in which    *)
(* every column has zero variance).                                        *)
C6_TwinScoresHundredUnlessZeroRow ==
    \A r \in Workers :
        Ranked(r) =>
            TwinScores(r) \subseteq
                (IF ZeroRow(loc[r].X_scaled, QueryIdx(r)) THEN {5000} ELSE {10000})

C6_Witness ==
    \E r \in Workers :
        /\ Ranked(r)
        /\ Len(loc[r].users) > 2
        /\ TwinScores(r) = {10000}

\* the number of distinct values in the lists got from the users by Field
DistinctCount(users, Field(_)) ==
    Cardinality(UNION {Range(Field(users[i])) : i \in DOMAIN users})

(* C7: every row of the feature matrix has length (distinct skills) +      *)
(* (distinct interests) + (distinct availability tokens) + 5, and holds    *)
(* the skills, interests, availability and personality segments in order.  *)
C7_RowLayout ==
    \A r \in Workers :
        loc[r].feature_matrix # <<>> =>
            LET users == loc[r].users
                ns == DistinctCount(users, SkillsOf)
                ni == DistinctCount(users, InterestsOf)
                na == DistinctCount(users, flatten_availability)
                voc == loc[r].voc
            IN  /\ Len(loc[r].feature_matrix) = Len(users)
                /\ Len(voc.all_skills) = ns
                /\ Len(voc.all_interests) = ni
                /\ Len(voc.all_avail) = na
                /\ \A i \in DOMAIN users :
                      LET row == loc[r].feature_matrix[i]
                      IN  /\ Len(row) = ns + ni + na + 5
                          /\ \A j \in 1 .. ns :
                                (row[j] = 1) <=>
                                    (voc.all_skills[j] \in Range(SkillsOf(users[i])))
                          /\ \A j \in 1 .. ni :
                                (row[ns + j] = 1) <=>
                                    (voc.all_interests[j] \in Range(InterestsOf(users[i])))
                          /\ \A j \in 1 .. na :
                                (row[ns + ni + j] = 1) <=>
                                    (voc.all_avail[j] \in
                                        Range(flatten_availability(users[i])))
                          /\ \A j \in 1 .. 5 :
                                row[ns + ni + na + j] =
                                    Get(users[i], BIG5_KEYS[j], Big5Default)

C7_Witness ==
    \E r \in Workers :
        /\ loc[r].feature_matrix # <<>>
        /\ Len(loc[r].voc.all_skills) >= 2
        /\ Len(loc[r].voc.all_interests) >= 2
        /\ Len(loc[r].voc.all_avail) >= 4

\* the outcome of one request run on its own on the snapshot it read
MatchAlone(users, user_ids, user_id, top_n, elbow, clusters) ==
    LET n == Len(users)
        X == Standardize(FeatureMatrix(users, Vocabulary(users)))
        k == IF variant = "fixed" THEN FixedK(n) ELSE OptimalK(elbow)
    IN  IF n < 2 THEN [status |-> 200, body |-> <<>>]
        ELSE IF KMeansRaises(n, k) THEN [status |-> 500, body |-> <<>>]
        ELSE IF user_id \notin Range(user_ids) THEN [status |-> 404, body |-> <<>>]
        ELSE [status |-> 200,
              body |-> ResultOf(users,
                          TopPairs(X, clusters, IndexOf(user_ids, user_id), top_n))]

C8_ResultIsOwn ==
    \A r \in Workers :
        Done(r) =>
            /\ [status |-> loc[r].status, body |-> loc[r].body]
                  = MatchAlone(loc[r].users, loc[r].user_ids, loc[r].user_id,
                               loc[r].top_n, loc[r].elbow, loc[r].clusters)
            /\ loc[r].clusters # <<>> =>
                  loc[r].clusters \in
                      KMeansLabels(
                          Standardize(FeatureMatrix(loc[r].users,
                                                    Vocabulary(loc[r].users))),
                          loc[r].k)

\* a step of one request changes neither the store nor another request
C8_StepIsPrivate ==
    \A r \in Workers :
        pc'[r] # pc[r] =>
            /\ store' = store
            /\ \A p \in Workers \ {r} : pc'[p] = pc[p] /\ loc'[p] = loc[p]

(* C8: under every interleaving of match requests with each other and with *)
(* token updates, each request's result is the result of running it alone  *)
(* on the snapshot it read, and no step of a request writes state another  *)
(* request reads.                                                          *)
C8_RequestsIndependent == []C8_ResultIsOwn /\ [][C8_StepIsPrivate]_vars

C8_Witness ==
    \E r, p \in Workers :
        /\ r # p
        /\ Ranked(r) /\ loc[r].body # <<>>
        /\ pc[p] \in {"encoded", "scaled", "selected", "clustered"}
        /\ loc[p].user_id # loc[r].user_id
        /\ loc[p].users # loc[r].users

(* C10: in both variants the cohort count K given to the final clustering  *)
(* satisfies 1 <= K <= population size, and no request ends in the         *)
(* clustering step.                                                        *)
C10_KWithinPopulation ==
    \A r \in Workers :
        /\ loc[r].k # 0 => (1 <= loc[r].k /\ loc[r].k <= Len(loc[r].users))
        /\ loc[r].status # 500

HeuristicDone(r) == Done(r) /\ loc[r].mode = "heuristic"

\* the score of snapshot user i against the query user
ScoreOf(r, i) == HeuristicScore(loc[r].users[QueryIdx(r)], loc[r].users[i])

\* all interests and availability shared, disjoint skills, identical personality
ScenarioE(u, v) ==
    /\ Range(InterestsOf(u)) = Range(InterestsOf(v))
    /\ Range(flatten_availability(u)) = Range(flatten_availability(v))
    /\ Range(SkillsOf(u)) \cap Range(SkillsOf(v)) = {}
    /\ Range(SkillsOf(u)) \cup Range(SkillsOf(v)) # {}
    /\ Big5Vec(u) = Big5Vec(v)

(* C9: a heuristic-mode request, selectable beside cohort mode, ranks      *)
(* every other user of the snapshot regardless of cohort by                *)
(* 2.0*interest + 1.5*availability + 2.0*(1 - skills) + 1.0*personality,   *)
(* sorted descending and cut to top N; two users sharing all interests and *)
(* availability, with disjoint skills and identical personality, score 6.5.*)
C9_HeuristicMode ==
    \A r \in Workers :
        HeuristicDone(r) =>
            IF ~Present(r) THEN loc[r].status = 404
            ELSE /\ loc[r].status = 200
                 /\ Len(loc[r].body) = Min(loc[r].top_n, Len(loc[r].users) - 1)
                 /\ \A e, f \in DOMAIN loc[r].body :
                       loc[r].body[e].uid = loc[r].body[f].uid => e = f
                 /\ QueryIdx(r) \notin ReturnedIdx(r)
                 /\ \A i \in ReturnedIdx(r), e \in DOMAIN loc[r].body :
                       loc[r].body[e].uid = loc[r].users[i].uid =>
                           /\ loc[r].body[e].similarity = RoundTenths(ScoreOf(r, i))
                           /\ ScenarioE(loc[r].users[QueryIdx(r)], loc[r].users[i])
                                 => loc[r].body[e].similarity = 65
                           /\ \A f \in DOMAIN loc[r].body, j \in ReturnedIdx(r) :
                                 (e < f /\ loc[r].body[f].uid = loc[r].users[j].uid) =>
                                     ~FracLess(ScoreOf(r, i).num, ScoreOf(r, i).den,
                                               ScoreOf(r, j).num, ScoreOf(r, j).den)
                 /\ \A i \in ReturnedIdx(r),
                       out \in (DOMAIN loc[r].users \ {QueryIdx(r)}) \ ReturnedIdx(r) :
                       ~FracLess(ScoreOf(r, i).num, ScoreOf(r, i).den,
                                 ScoreOf(r, out).num, ScoreOf(r, out).den)

C9_Witness ==
    \E r \in Workers :
        /\ HeuristicDone(r) /\ Present(r)
        /\ Len(loc[r].users) = 4
        /\ Len(loc[r].body) = 2
        /\ loc[r].body[1].similarity = 65
        /\ loc[r].body[2].similarity < 65

====
